---- MODULE Spec2Model ----
(***************************************************************************)
(* Sensor-Control-Modules: the two wired drivers (internal/vaisala,        *)
(* internal/kurz) and the wireless heart-rate driver (polar).              *)
(*                                                                         *)
(* Wired drivers: one session (VaisalaSensor / KurzSensor) shared by       *)
(*   "loop"  the goroutine running startVaisalaSensor / startKurzSensor,   *)
(*   "rdr"   a second goroutine calling readCO2 / readFlowRate directly,   *)
(*   "main"  the goroutine making the lifecycle calls openSerialConnection *)
(*           and close,                                                    *)
(* plus the consumer of the measurement channel.  Every step that touches  *)
(* the connection is one action, so that the interleavings the Go          *)
(* scheduler allows are the interleavings of the model.                    *)
(*                                                                         *)
(* Wireless driver (SpecPolar): the notification callback and the consumer *)
(* of its two channels.                                                    *)
(*                                                                         *)
(* Single calls (SpecCalls): writeCommand, searchPorts, readCO2 and        *)
(* readFlowRate as functions of their input.                               *)
(*                                                                         *)
(* Text is a sequence of one-character strings (the literal words of a     *)
(* regular expression are one element each); a float64 is the record      *)
(* [m, e] standing for m / 10^e with trailing zeros stripped.              *)
(***************************************************************************)
EXTENDS Integers, Sequences, FiniteSets, TLC

\* ---------------------------------------------------------------- bounds
\* openSerialConnection calls made by "main" (every one may open a new port)
MaxOpens == 2
\* direct read calls made by "rdr"
MaxCalls == 2
\* successful reads of the polling loop (values put on the channel)
MaxPublished == 2
\* notifications delivered to the heart-rate callback
MaxNotifs == 2
\* bytes in a notification buffer
MaxBuf == 6
\* characters of a response line readCO2 is called on
MaxCO2Line == 5
\* characters of a response line readFlowRate is called on
MaxFlowLine == 7
\* entries of a device listing searchPorts is called on
MaxEntries == 2

\* ------------------------------------------------------------------ text
Whitespace == {" ", "\n", "\r", "\t"}

DigitSeq == <<"0", "1", "2", "3", "4", "5", "6", "7", "8", "9">>

Digits == {DigitSeq[i] : i \in 1..Len(DigitSeq)}

DigitVal(c) == (CHOOSE i \in 1..Len(DigitSeq) : DigitSeq[i] = c) - 1

RECURSIVE NatOf(_)
NatOf(s) ==
    IF s = <<>> THEN 0
    ELSE NatOf(SubSeq(s, 1, Len(s) - 1)) * 10 + DigitVal(s[Len(s)])

RECURSIVE Normalize(_, _)
Normalize(m, e) ==
    IF e > 0 /\ m % 10 = 0 THEN Normalize(m \div 10, e - 1)
    ELSE [m |-> m, e |-> e]

Zero == [m |-> 0, e |-> 0]

NoFloat == [ok |-> FALSE, val |-> Zero]

\* strconv.ParseFloat(tok, 64) on the alphabet of the model (no exponent,
\* hexadecimal, infinity or NaN spelling can be written in it): an optional
\* sign, digits with at most one point, at least one digit.
ParseFloat(tok) ==
    LET signed == tok # <<>> /\ tok[1] \in {"+", "-"}
        body   == IF signed THEN Tail(tok) ELSE tok
        dots   == {i \in 1..Len(body) : body[i] = "."}
        dot    == IF dots = {} THEN Len(body) + 1 ELSE CHOOSE i \in dots : TRUE
        int    == SubSeq(body, 1, dot - 1)
        frac   == SubSeq(body, dot + 1, Len(body))
        digits == int \o frac
        abs    == Normalize(NatOf(digits), Len(frac))
    IN  IF \/ Cardinality(dots) > 1
           \/ digits = <<>>
           \/ \E i \in 1..Len(digits) : digits[i] \notin Digits
        THEN NoFloat
        ELSE [ok  |-> TRUE,
              val |-> IF signed /\ tok[1] = "-"
                      THEN [m |-> 0 - abs.m, e |-> abs.e] ELSE abs]

\* strings.Split(s, sep) for a one-character separator
RECURSIVE Split(_, _)
Split(s, sep) ==
    LET hits == {i \in 1..Len(s) : s[i] = sep}
    IN  IF hits = {} THEN <<s>>
        ELSE LET i == CHOOSE j \in hits : \A k \in hits : j <= k
             IN  <<SubSeq(s, 1, i - 1)>> \o Split(SubSeq(s, i + 1, Len(s)), sep)

\* strings.TrimSpace
RECURSIVE TrimSpace(_)
TrimSpace(s) ==
    IF s = <<>> THEN s
    ELSE IF s[1] \in Whitespace THEN TrimSpace(Tail(s))
    ELSE IF s[Len(s)] \in Whitespace THEN TrimSpace(SubSeq(s, 1, Len(s) - 1))
    ELSE s

\* strings.Fields: the maximal runs of non-whitespace characters
RECURSIVE Fields(_)
Fields(s) ==
    IF s = <<>> THEN <<>>
    ELSE IF s[1] \in Whitespace THEN Fields(Tail(s))
    ELSE LET ws  == {i \in 1..Len(s) : s[i] \in Whitespace}
             end == IF ws = {} THEN Len(s) + 1
                    ELSE CHOOSE j \in ws : \A k \in ws : j <= k
         IN  <<SubSeq(s, 1, end - 1)>> \o Fields(SubSeq(s, end, Len(s)))

ParseCO2_lastSegment(response) ==
    LET parts == Split(response, "=")
    IN  IF Len(parts) < 2 THEN NoFloat
        ELSE LET co2Parts == Fields(TrimSpace(parts[Len(parts)]))
             IN  IF Len(co2Parts) < 1 THEN NoFloat
                 ELSE ParseFloat(co2Parts[1])

\* readCO2 after the line was read: split on "=", trim, first field, parse
ParseCO2(response) ==
    LET parts == Split(response, "=")
    IN  IF Len(parts) < 2 THEN NoFloat
        ELSE LET co2Parts == Fields(TrimSpace(parts[2]))
             IN  IF Len(co2Parts) < 1 THEN NoFloat
                 ELSE ParseFloat(co2Parts[1])

ParseFlowRate_lastField(response) ==
    LET parts == Fields(response)
    IN  IF Len(parts) < 4 THEN NoFloat ELSE ParseFloat(parts[Len(parts)])

\* readFlowRate after the line was read: fourth whitespace-delimited field
ParseFlowRate(response) ==
    LET parts == Fields(response)
    IN  IF Len(parts) < 4 THEN NoFloat ELSE ParseFloat(parts[4])

Least(S) == CHOOSE x \in S : \A y \in S : x <= y

Greatest(S) == CHOOSE x \in S : \A y \in S : x >= y

\* strings.Contains(s, c) for a one-character c
Contains(s, c) == \E i \in 1..Len(s) : s[i] = c

\* ------------------------------------------------------ regular expressions
\* In the texts the patterns are matched on, a literal word of a pattern
\* ("Device", "SNUM", ...) is one element of the sequence; every other
\* element is one character.
Keywords == {"Device", "SNUM", "SW", "version"}

Letters == {"G", "H", "a", "b", "c", "d", "p", "C", "x"}

\* \w
WordChars == Digits \cup Letters \cup Keywords \cup {"_"}

\* index after the longest run of elements of S that starts at s[i]
RunEnd(s, i, S) ==
    CHOOSE j \in i..(Len(s) + 1) :
        /\ \A k \in i..(j - 1) : s[k] \in S
        /\ j = Len(s) + 1 \/ s[j] \notin S

\* "." matches one character other than newline
AnyChar(a) == a \notin Keywords /\ a # "\n"

\* The patterns compiled in init(): a literal, white space, ":", white space,
\* then word characters (tail "w") or a three-part version (tail "d.d.d");
\* min is the least length of each run (\s+ and \w+ against \s* and \w*);
\* groups is the number of capture groups.
VaisalaModelRegex ==
    [lit |-> <<"Device">>, min |-> 1, tail |-> "w", groups |-> 1]

VaisalaSerialNumberRegex ==
    [lit |-> <<"SNUM">>, min |-> 1, tail |-> "w", groups |-> 1]

VaisalaSoftwareRegex ==
    [lit |-> <<"SW">>, min |-> 1, tail |-> "w", groups |-> 1]

KurzModelRegex ==
    [lit |-> <<"Device">>, min |-> 0, tail |-> "w", groups |-> 0]

KurzSerialNumberRegex ==
    [lit |-> <<"SNUM">>, min |-> 0, tail |-> "w", groups |-> 0]

KurzSoftwareRegex ==
    [lit |-> <<"SW", " ", "version">>, min |-> 0, tail |-> "d.d.d",
     groups |-> 0]

NoMatch == [ok |-> FALSE, whole |-> <<>>, cap |-> <<>>]

\* the match of pattern re that starts at s[i], if there is one
MatchAt(re, s, i) ==
    LET a == i + Len(re.lit)
        b == RunEnd(s, a, Whitespace)
        c == b + 1
        d == RunEnd(s, c, Whitespace)
        e == IF re.tail = "w" THEN RunEnd(s, d, WordChars) ELSE d + 5
    IN  IF /\ a - 1 <= Len(s)
           /\ SubSeq(s, i, a - 1) = re.lit
           /\ b - a >= re.min
           /\ b <= Len(s)
           /\ s[b] = ":"
           /\ d - c >= re.min
           /\ IF re.tail = "w" THEN e - d >= re.min
              ELSE /\ e - 1 <= Len(s)
                   /\ s[d] \in Digits /\ AnyChar(s[d + 1])
                   /\ s[d + 2] \in Digits /\ AnyChar(s[d + 3])
                   /\ s[d + 4] \in Digits
        THEN [ok |-> TRUE, whole |-> SubSeq(s, i, e - 1),
              cap |-> SubSeq(s, d, e - 1)]
        ELSE NoMatch

\* regexp.FindStringSubmatch: nil without a match, else the leftmost match
\* followed by one entry per capture group of the pattern
FindStringSubmatch(re, s) ==
    LET starts == {i \in 1..Len(s) : MatchAt(re, s, i).ok}
    IN  IF starts = {} THEN <<>>
        ELSE LET i == CHOOSE j \in starts : \A k \in starts : j <= k
                 m == MatchAt(re, s, i)
             IN  IF re.groups = 1 THEN <<m.whole, m.cap>> ELSE <<m.whole>>

\* collectProbeInfo / collectSensorInfo: if len(match) > 1 { field = match[1] }
Collect(re, response, field) ==
    LET match == FindStringSubmatch(re, response)
    IN  IF Len(match) > 1 THEN match[2] ELSE field

\* ------------------------------------------------------------ searchPorts
\* The port patterns compiled in searchPorts: literals with ".*" between
\* them and \d+ after the last one.  In a device listing each of these
\* literals is one element of the sequence.
VaisalaUSBPrefixRegex == <<"usb-Silicon_Labs_Vaisala_USB", "->", "ttyUSB">>

KurzUSBPrefixRegex == <<"usb-FTDI_", "_USB", "->", "ttyUSB">>

\* "." does not match a newline: the last position of the line of s[i]
LineEnd(s, i) == Least({j \in i..Len(s) : j = Len(s) \/ s[j + 1] = "\n"})

\* where the last of lits[k..] lies when they are laid out in s[from..to] in
\* order, each as early as possible; 0 when they do not fit
RECURSIVE Embed(_, _, _, _, _)
Embed(lits, k, s, from, to) ==
    LET hits == {i \in from..to : s[i] = lits[k]}
    IN  IF hits = {} THEN 0
        ELSE IF k = Len(lits) THEN Least(hits)
        ELSE Embed(lits, k + 1, s, Least(hits) + 1, to)

\* the match of the pattern that starts at s[i], <<>> if there is none: the
\* greedy ".*" take the match to the last "ttyUSB\d+" of the line
USBMatchAt(lits, s, i) ==
    LET to  == LineEnd(s, i)
        n   == Len(lits)
        mid == Embed(SubSeq(lits, 2, n - 1), 1, s, i + 1, to)
        ps  == {p \in (mid + 1)..(to - 1) :
                   s[p] = lits[n] /\ s[p + 1] \in Digits}
    IN  IF s[i] # lits[1] \/ mid = 0 \/ ps = {} THEN <<>>
        ELSE SubSeq(s, i, RunEnd(s, Greatest(ps) + 1, Digits) - 1)

\* FindStringSubmatch of a port pattern (no capture group): nil, or the
\* leftmost match alone
FindPortSubmatch(lits, s) ==
    LET starts == {i \in 1..Len(s) : USBMatchAt(lits, s, i) # <<>>}
    IN  IF starts = {} THEN <<>>
        ELSE <<USBMatchAt(lits, s, Least(starts))>>

\* fmt.Sprintf("/dev/%s", name)
DefaultPortFormat(name) == <<"/dev/">> \o name

NotFound == [err |-> "sensor not found", port |-> <<>>]

searchPorts_noSeparatorCheck(lits, ran, output) ==
    IF ~ran THEN [err |-> "failed to execute command", port |-> <<>>]
    ELSE LET match == FindPortSubmatch(lits, output)
         IN  IF Len(match) = 0 THEN NotFound
             ELSE LET parts      == Fields(match[1])
                      sensorPath == parts[Len(parts)]
                      segs       == Split(sensorPath, "/")
                  IN  [err |-> "nil",
                       port |-> DefaultPortFormat(segs[Len(segs)])]

\* searchPorts on the outcome of the listing command: ran tells whether it
\* could be executed, output is what it printed
searchPorts(lits, ran, output) ==
    IF ~ran THEN [err |-> "failed to execute command", port |-> <<>>]
    ELSE LET match == FindPortSubmatch(lits, output)
         IN  IF Len(match) = 0 THEN NotFound
             ELSE LET parts == Fields(match[1])
                  IN  IF Len(parts) > 0 /\ Contains(parts[Len(parts)], "/")
                      THEN LET sensorPath == parts[Len(parts)]
                               segs       == Split(sensorPath, "/")
                           IN  [err |-> "nil",
                                port |-> DefaultPortFormat(segs[Len(segs)])]
                      ELSE NotFound

\* ------------------------------------------------ environment of a session
\* Lines the probe may answer to "?": all three fields, the model alone,
\* an empty line
VaisalaInfoLines ==
    { <<"Device", " ", ":", " ", "G", " ", "SNUM", " ", ":", " ", "7", " ",
        "SW", " ", ":", " ", "1", "\n">>,
      <<"Device", " ", ":", " ", "H", "\n">>,
      <<"\n">> }

\* Lines the flow meter may answer to "?": all three fields, an empty line
KurzInfoLines ==
    { <<"Device", ":", "G", " ", "SNUM", ":", "7", " ", "SW", " ", "version",
        ":", "1", ".", "2", ".", "3", "\n">>,
      <<"\n">> }

\* Lines the CO2 probe may answer: two values, no "=", empty value, no number
VaisalaLines ==
    { <<"C", "=", " ", "4", "1", " ", "p", "\n">>,
      <<"C", "=", ".", "5", "\n">>,
      <<"C", "4", "1", "\n">>,
      <<"C", "=", " ", "\n">>,
      <<"C", "=", "p", "\n">> }

\* Lines the flow meter may answer: two values, three fields, no number
KurzLines ==
    { <<"a", " ", "b", " ", "c", " ", "4", "1", "\n">>,
      <<"a", " ", "b", " ", "c", " ", ".", "5", " ", "d", "\n">>,
      <<"a", " ", "b", " ", "4", "1", "\n">>,
      <<"a", " ", "b", " ", "c", " ", "p", "\n">> }

\* Values of the environment variable CONSTANT_FLOW_RATE_SCFM:
\* unset, unparsable, zero, non-zero
EnvValues == { <<>>, <<"p">>, <<"0", ".", "0">>, <<"2", ".", "5">> }

Drivers == {"vaisala", "kurz"}

Threads == {"loop", "rdr", "main"}

Readers == {"loop", "rdr"}

\* the nil serial.Port
Nil == 0

VARIABLES
    driver,                 \* which wired driver the session belongs to
    constantFlowRateSCFM,   \* KurzSensor.constantFlowRateSCFM
    serialConn,             \* the session's handle: Nil or a connection id
    connOpen,               \* the session's connection, while its port is open
    lock,                   \* holder of the session's sync.Mutex, or "none"
    pc,                     \* position of every goroutine
    ret,                    \* last (value, error) a read call returned
    produced,               \* values of the loop's successful reads, in order
    received,               \* values the consumer took from the channel
    opens,                  \* openSerialConnection calls so far
    calls,                  \* direct read calls of "rdr" so far
    oc,                     \* the openSerialConnection call in progress
    openRet,                \* result of the last openSerialConnection call
    initSent,               \* the session's connection, once "open" went to it
    queried,                \* the session's connection, once "?" went to it
    touched,                \* readers that took the lock or used the handle
    reqConn,                \* connection each outstanding request went to
    crashed,                \* an unrecovered panic ended the process
    sensorModel,            \* identification metadata of the session
    sensorSerialNumber,
    sensorSoftwareVersion,
    \* PolarSensor and the heart-rate notification callback
    notifs,                 \* notifications delivered to the callback so far
    buf,                    \* the buffer the callback is running on
    cbpc,                   \* position of the callback
    cons,                   \* the receive the consumer is blocked in, if any
    out,                    \* events of this notification received so far
    fault,                  \* the callback panicked
    taken,                  \* every event received, with its notification
    \* a single call of writeCommand, searchPorts, readCO2 or readFlowRate
    fn,                     \* the function called, "none" before the call
    arg,                    \* its input
    res                     \* what it wrote or returned

\* fixed at construction
cfgVars == <<driver, constantFlowRateSCFM>>

\* written by collectProbeInfo / collectSensorInfo
infoVars == <<sensorModel, sensorSerialNumber, sensorSoftwareVersion>>

wiredVars == <<driver, constantFlowRateSCFM, serialConn, connOpen, lock, pc,
               ret, produced, received, opens, calls, oc, openRet, initSent,
               queried, touched, reqConn, crashed, sensorModel,
               sensorSerialNumber, sensorSoftwareVersion>>

polarVars == <<notifs, buf, cbpc, cons, out, fault, taken>>

\* one call of a function of the drivers on an input of its own
callVars == <<fn, arg, res>>

vars == <<wiredVars, polarVars, callVars>>

\* newKurzSensor: the override is the parsed variable, or 0.0 when it is
\* unset or does not parse
newKurzSensor(val) ==
    IF val # <<>> /\ ParseFloat(val).ok THEN ParseFloat(val).val ELSE Zero

\* an openSerialConnection call that has not closed anything; steps are the
\* steps of the call that have succeeded so far
NoCall == [had |-> Nil, closed |-> FALSE, closeErr |-> FALSE, steps |-> <<>>]

Done(step) == [oc EXCEPT !.steps = Append(@, step)]

\* newPolarSensor: two fresh unbuffered channels, no notification yet
PolarIdle ==
    /\ notifs = 0
    /\ buf = <<>>
    /\ cbpc = "wait"
    /\ cons = "idle"
    /\ out = <<>>
    /\ fault = FALSE
    /\ taken = <<>>

\* no single function call is looked at
NoCalls ==
    /\ fn = "none"
    /\ arg = <<>>
    /\ res = <<>>

\* newVaisalaSensor / newKurzSensor: no connection, a fresh unbuffered channel
SessionIdle ==
    /\ serialConn = Nil
    /\ connOpen = {}
    /\ lock = "none"
    /\ pc = [t \in Threads |-> "idle"]
    /\ ret = [t \in Readers |-> [ok |-> FALSE, val |-> Zero]]
    /\ produced = <<>>
    /\ received = <<>>
    /\ opens = 0
    /\ calls = 0
    /\ oc = NoCall
    /\ openRet = "none"
    /\ initSent = {}
    /\ queried = {}
    /\ touched = {}
    /\ reqConn = [t \in Threads |-> Nil]
    /\ crashed = FALSE
    /\ sensorModel = <<>>
    /\ sensorSerialNumber = <<>>
    /\ sensorSoftwareVersion = <<>>

Init ==
    /\ driver \in Drivers
    /\ \E val \in EnvValues :
          constantFlowRateSCFM =
              IF driver = "kurz" THEN newKurzSensor(val) ELSE Zero
    /\ SessionIdle
    /\ PolarIdle
    /\ NoCalls

\* ------------------------------------------------------------ connection
\* What a Write or a line read on handle h can do: a method call on the nil
\* interface panics, a closed port fails, an open port succeeds or fails.
IOOutcomes(h) ==
    IF h = Nil THEN {"panic"}
    ELSE IF h \notin connOpen THEN {"err"}
    ELSE {"ok", "err"}

\* What Close on handle h can do, and the connections open afterwards (a
\* failed Close may or may not have released the port).
CloseOutcomes(h) ==
    IF h = Nil THEN {[res |-> "panic", open |-> connOpen]}
    ELSE {[res |-> "ok", open |-> connOpen \ {h}],
          [res |-> "err", open |-> connOpen \ {h}],
          [res |-> "err", open |-> connOpen]}

Lines == IF driver = "vaisala" THEN VaisalaLines ELSE KurzLines

InfoLines == IF driver = "vaisala" THEN VaisalaInfoLines ELSE KurzInfoLines

modelRegex ==
    IF driver = "vaisala" THEN VaisalaModelRegex ELSE KurzModelRegex

serialNumberRegex ==
    IF driver = "vaisala" THEN VaisalaSerialNumberRegex
    ELSE KurzSerialNumberRegex

softwareRegex ==
    IF driver = "vaisala" THEN VaisalaSoftwareRegex ELSE KurzSoftwareRegex

usbPrefixRegex ==
    IF driver = "vaisala" THEN VaisalaUSBPrefixRegex ELSE KurzUSBPrefixRegex

\* the name of a by-id symlink of the driver's vendor
VendorName ==
    IF driver = "vaisala" THEN <<"usb-Silicon_Labs_Vaisala_USB", "x">>
    ELSE <<"usb-FTDI_", "x", "_USB", "x">>

ParseResponse(response) ==
    IF driver = "vaisala" THEN ParseCO2(response) ELSE ParseFlowRate(response)

\* an unrecovered panic in goroutine t: deferred unlocks run, the process dies
Panic(t) ==
    /\ pc' = [pc EXCEPT ![t] = "panic"]
    /\ crashed' = TRUE
    /\ lock' = IF lock = t THEN "none" ELSE lock

\* -------------------------------------------------- readCO2 / readFlowRate
LoopAfterRead_alwaysPublish(r) == "publish"

\* The polling loop: what follows a read that returned r.
LoopAfterRead(r) == IF r.ok THEN "publish" ELSE "sleep"

Return_keepsLock(t, r) ==
    /\ ret' = [ret EXCEPT ![t] = r]
    /\ pc' = [pc EXCEPT ![t] = IF t = "loop" THEN LoopAfterRead(r) ELSE "idle"]
    /\ produced' = IF t = "loop" /\ r.ok THEN Append(produced, r.val)
                   ELSE produced
    /\ lock' = lock
    /\ reqConn' = [reqConn EXCEPT ![t] = Nil]
    /\ crashed' = crashed

\* A read call of t returns r (the deferred Unlock releases the lock).
Return(t, r) ==
    /\ ret' = [ret EXCEPT ![t] = r]
    /\ pc' = [pc EXCEPT ![t] = IF t = "loop" THEN LoopAfterRead(r) ELSE "idle"]
    /\ produced' = IF t = "loop" /\ r.ok THEN Append(produced, r.val)
                   ELSE produced
    /\ lock' = IF lock = t THEN "none" ELSE lock
    /\ reqConn' = [reqConn EXCEPT ![t] = Nil]
    /\ crashed' = crashed

\* go startVaisalaSensor() / go startKurzSensor(), once an open has succeeded
StartLoop ==
    /\ ~crashed
    /\ pc["loop"] = "idle"
    /\ openRet = "ok"
    /\ pc' = [pc EXCEPT !["loop"] = "call"]
    /\ UNCHANGED <<cfgVars, infoVars, polarVars, callVars, serialConn,
                   connOpen, lock, ret, produced, received, opens, calls, oc,
                   openRet, initSent, queried, touched, reqConn, crashed>>

Overridden_ignored == FALSE

\* Is the constant override in force? (readCO2 has none)
Overridden == driver = "kurz" /\ constantFlowRateSCFM # Zero

\* Entry of a read call: the override short-circuit, else go for the lock.
ReadCall(t) ==
    /\ ~crashed
    /\ \/ t = "loop" /\ pc[t] = "call" /\ Len(produced) < MaxPublished
       \/ t = "rdr" /\ pc[t] = "idle" /\ calls < MaxCalls
    /\ calls' = IF t = "rdr" THEN calls + 1 ELSE calls
    /\ IF Overridden
       THEN Return(t, [ok |-> TRUE, val |-> constantFlowRateSCFM])
       ELSE /\ pc' = [pc EXCEPT ![t] = "lock"]
            /\ UNCHANGED <<ret, produced, lock, reqConn, crashed>>
    /\ UNCHANGED <<cfgVars, infoVars, polarVars, callVars, serialConn,
                   connOpen, received, opens, oc, openRet, initSent, queried,
                   touched>>

ReadLock_noMutex(t) ==
    /\ ~crashed
    /\ pc[t] = "lock"
    /\ lock' = t
    /\ pc' = [pc EXCEPT ![t] = "write"]
    /\ touched' = touched \cup {t}
    /\ UNCHANGED <<cfgVars, infoVars, polarVars, callVars, serialConn,
                   connOpen, ret, produced, received, opens, calls, oc,
                   openRet, initSent, queried, reqConn, crashed>>

\* lock.Lock(): blocks until the mutex is free
ReadLock(t) ==
    /\ ~crashed
    /\ pc[t] = "lock"
    /\ lock = "none"
    /\ lock' = t
    /\ pc' = [pc EXCEPT ![t] = "write"]
    /\ touched' = touched \cup {t}
    /\ UNCHANGED <<cfgVars, infoVars, polarVars, callVars, serialConn,
                   connOpen, ret, produced, received, opens, calls, oc,
                   openRet, initSent, queried, reqConn, crashed>>

\* writeCommand("send") / writeCommand("x") on the session's handle
ReadWrite(t) ==
    /\ ~crashed
    /\ pc[t] = "write"
    /\ touched' = touched \cup {t}
    /\ \E o \in IOOutcomes(serialConn) :
          CASE o = "ok"    -> /\ pc' = [pc EXCEPT ![t] = "resp"]
                              /\ reqConn' = [reqConn EXCEPT ![t] = serialConn]
                              /\ UNCHANGED <<ret, produced, lock, crashed>>
            [] o = "err"   -> Return(t, NoFloat)
            [] o = "panic" -> Panic(t) /\ UNCHANGED <<ret, produced, reqConn>>
    /\ UNCHANGED <<cfgVars, infoVars, polarVars, callVars, serialConn,
                   connOpen, received, opens, calls, oc, openRet, initSent,
                   queried>>

ReadResponse_dropsHandle(t) ==
    /\ ~crashed
    /\ pc[t] = "resp"
    /\ touched' = touched \cup {t}
    /\ \E o \in IOOutcomes(serialConn) :
          CASE o = "ok"    -> /\ \E response \in Lines :
                                    Return(t, ParseResponse(response))
                              /\ serialConn' = serialConn
            [] o = "err"   -> Return(t, NoFloat) /\ serialConn' = Nil
            [] o = "panic" -> /\ Panic(t)
                              /\ UNCHANGED <<ret, produced, reqConn,
                                             serialConn>>
    /\ UNCHANGED <<cfgVars, infoVars, polarVars, callVars, connOpen, received,
                   opens, calls, oc, openRet, initSent, queried>>

\* bufio.NewReader(serialConn).ReadString('\n'), then the parse and return
ReadResponse(t) ==
    /\ ~crashed
    /\ pc[t] = "resp"
    /\ touched' = touched \cup {t}
    /\ \E o \in IOOutcomes(serialConn) :
          CASE o = "ok"    -> \E response \in Lines :
                                 Return(t, ParseResponse(response))
            [] o = "err"   -> Return(t, NoFloat)
            [] o = "panic" -> Panic(t) /\ UNCHANGED <<ret, produced, reqConn>>
    /\ UNCHANGED <<cfgVars, infoVars, polarVars, callVars, serialConn,
                   connOpen, received, opens, calls, oc, openRet, initSent,
                   queried>>

\* time.Sleep(time.Second); continue (the iteration's co2, err / flowRate, err
\* go out of scope)
Sleep ==
    /\ ~crashed
    /\ pc["loop"] = "sleep"
    /\ pc' = [pc EXCEPT !["loop"] = "call"]
    /\ ret' = [ret EXCEPT !["loop"] = NoFloat]
    /\ UNCHANGED <<cfgVars, infoVars, polarVars, callVars, serialConn,
                   connOpen, lock, produced, received, opens, calls, oc,
                   openRet, initSent, queried, touched, reqConn, crashed>>

Deliver_buffered ==
    /\ ~crashed
    /\ pc["loop"] = "publish"
    /\ pc' = [pc EXCEPT !["loop"] = "call"]
    /\ ret' = [ret EXCEPT !["loop"] = NoFloat]
    /\ UNCHANGED <<cfgVars, infoVars, polarVars, callVars, serialConn,
                   connOpen, lock, produced, received, opens, calls, oc,
                   openRet, initSent, queried, touched, reqConn, crashed>>

\* co2Ch <- co2 / flowCh <- flowRate on the unbuffered channel: the send
\* completes in the step in which the consumer receives
Deliver ==
    /\ ~crashed
    /\ pc["loop"] = "publish"
    /\ received' = Append(received, ret["loop"].val)
    /\ pc' = [pc EXCEPT !["loop"] = "call"]
    /\ ret' = [ret EXCEPT !["loop"] = NoFloat]
    /\ UNCHANGED <<cfgVars, infoVars, polarVars, callVars, serialConn,
                   connOpen, lock, produced, opens, calls, oc, openRet,
                   initSent, queried, touched, reqConn, crashed>>

\* --------------------------------------------------- openSerialConnection
\* openSerialConnection returns to its caller with result r; the locals of
\* the call are gone
OpenReturn(r) ==
    /\ openRet' = r
    /\ pc' = [pc EXCEPT !["main"] = "idle"]
    /\ reqConn' = [reqConn EXCEPT !["main"] = Nil]
    /\ oc' = NoCall

OpenBegin_abortOnCloseError ==
    /\ ~crashed
    /\ pc["main"] = "idle"
    /\ opens < MaxOpens
    /\ opens' = opens + 1
    /\ IF serialConn # Nil
       THEN \E o \in CloseOutcomes(serialConn) :
               /\ connOpen' = o.open
               /\ IF o.res = "err"
                  THEN OpenReturn("close")
                  ELSE /\ oc' = [had |-> serialConn, closed |-> TRUE,
                                 closeErr |-> FALSE, steps |-> <<>>]
                       /\ pc' = [pc EXCEPT !["main"] = "o_search"]
                       /\ UNCHANGED <<openRet, reqConn>>
       ELSE /\ connOpen' = connOpen
            /\ oc' = NoCall
            /\ pc' = [pc EXCEPT !["main"] = "o_search"]
            /\ UNCHANGED <<openRet, reqConn>>
    /\ UNCHANGED <<cfgVars, infoVars, polarVars, callVars, serialConn, lock,
                   ret, produced, received, calls, initSent, queried, touched,
                   crashed>>

\* Entry: opens counts the call; an existing connection is closed, and
\* whatever Close returns the call goes on to discovery.
OpenBegin ==
    /\ ~crashed
    /\ pc["main"] = "idle"
    /\ opens < MaxOpens
    /\ opens' = opens + 1
    /\ IF serialConn # Nil
       THEN \E o \in CloseOutcomes(serialConn) :
               /\ connOpen' = o.open
               /\ oc' = [had |-> serialConn, closed |-> TRUE,
                         closeErr |-> o.res = "err", steps |-> <<>>]
       ELSE /\ connOpen' = connOpen
            /\ oc' = NoCall
    /\ pc' = [pc EXCEPT !["main"] = "o_search"]
    /\ UNCHANGED <<cfgVars, infoVars, polarVars, callVars, serialConn, lock,
                   ret, produced, received, calls, openRet, initSent, queried,
                   touched, reqConn, crashed>>

\* What the listing command may give while a session runs: it cannot be
\* executed, it lists nothing, it lists the sensor
SessionListings ==
    { [ran |-> FALSE, output |-> <<>>],
      [ran |-> TRUE, output |-> <<"x", " ", "0", "\n">>],
      [ran |-> TRUE,
       output |-> <<"x", " ">> \o VendorName
                     \o <<" ", "->", " ", ".", ".", "/", ".", ".", "/",
                          "ttyUSB", "0", "\n">>] }

\* searchPorts: a port is found or the call returns the discovery error
OpenSearch ==
    /\ ~crashed
    /\ pc["main"] = "o_search"
    /\ \E l \in SessionListings :
          IF searchPorts(usbPrefixRegex, l.ran, l.output).err = "nil"
          THEN /\ pc' = [pc EXCEPT !["main"] = "o_open"]
               /\ oc' = Done("discovery")
               /\ UNCHANGED <<openRet, reqConn>>
          ELSE OpenReturn("discovery")
    /\ UNCHANGED <<cfgVars, infoVars, polarVars, callVars, serialConn,
                   connOpen, lock, ret, produced, received, opens, calls,
                   initSent, queried, touched, crashed>>

AfterOpen_skipInit == "o_query"

\* The step that follows a successful serial.Open: the Vaisala driver writes
\* "open <address>", the Kurz driver goes straight to collectSensorInfo.
AfterOpen == IF driver = "vaisala" THEN "o_init" ELSE "o_query"

OpenPort_ignoresError ==
    /\ ~crashed
    /\ pc["main"] = "o_open"
    /\ initSent' = {}
    /\ queried' = {}
    /\ \E ok \in BOOLEAN :
          IF ok
          THEN /\ serialConn' = opens
               /\ connOpen' = {opens}
               /\ oc' = Done("open")
          ELSE /\ serialConn' = Nil
               /\ connOpen' = {}
               /\ oc' = oc
    /\ pc' = [pc EXCEPT !["main"] = AfterOpen]
    /\ UNCHANGED <<cfgVars, infoVars, polarVars, callVars, lock, ret, produced,
                   received, opens, calls, touched, crashed, openRet, reqConn>>

\* serialConn, err = serial.Open(port, mode): the handle is overwritten by
\* the new connection, or by nil when the open fails; the connection it
\* held can no longer be reached through the session
OpenPort ==
    /\ ~crashed
    /\ pc["main"] = "o_open"
    /\ initSent' = {}
    /\ queried' = {}
    /\ \E ok \in BOOLEAN :
          IF ok
          THEN /\ serialConn' = opens
               /\ connOpen' = {opens}
               /\ pc' = [pc EXCEPT !["main"] = AfterOpen]
               /\ oc' = Done("open")
               /\ UNCHANGED <<openRet, reqConn>>
          ELSE /\ serialConn' = Nil
               /\ connOpen' = {}
               /\ OpenReturn("open")
    /\ UNCHANGED <<cfgVars, infoVars, polarVars, callVars, lock, ret, produced,
                   received, opens, calls, touched, crashed>>

\* serialConn.Write("open <defaultAddress>\r\n") (Vaisala only)
OpenInit ==
    /\ ~crashed
    /\ pc["main"] = "o_init"
    /\ \E o \in IOOutcomes(serialConn) :
          IF o = "ok"
          THEN /\ initSent' = initSent \cup {serialConn}
               /\ pc' = [pc EXCEPT !["main"] = "o_query"]
               /\ oc' = Done("write")
               /\ UNCHANGED <<openRet, reqConn>>
          ELSE /\ initSent' = initSent
               /\ OpenReturn("write")
    /\ UNCHANGED <<cfgVars, infoVars, polarVars, callVars, serialConn,
                   connOpen, lock, ret, produced, received, opens, calls,
                   queried, touched, crashed>>

\* collectProbeInfo / collectSensorInfo: writeCommand("?")
OpenQuery ==
    /\ ~crashed
    /\ pc["main"] = "o_query"
    /\ \E o \in IOOutcomes(serialConn) :
          IF o = "ok"
          THEN /\ queried' = queried \cup {serialConn}
               /\ pc' = [pc EXCEPT !["main"] = "o_resp"]
               /\ reqConn' = [reqConn EXCEPT !["main"] = serialConn]
               /\ oc' = Done("query")
               /\ openRet' = openRet
          ELSE /\ queried' = queried
               /\ OpenReturn("handshake")
    /\ UNCHANGED <<cfgVars, infoVars, polarVars, callVars, serialConn,
                   connOpen, lock, ret, produced, received, opens, calls,
                   initSent, touched, crashed>>

\* collectProbeInfo / collectSensorInfo: the line read, the three pattern
\* matches on the line, and the return that ends the call
OpenResp ==
    /\ ~crashed
    /\ pc["main"] = "o_resp"
    /\ \E o \in IOOutcomes(serialConn) :
          IF o = "ok"
          THEN \E response \in InfoLines :
                  /\ sensorModel' = Collect(modelRegex, response, sensorModel)
                  /\ sensorSerialNumber' =
                         Collect(serialNumberRegex, response,
                                 sensorSerialNumber)
                  /\ sensorSoftwareVersion' =
                         Collect(softwareRegex, response,
                                 sensorSoftwareVersion)
                  /\ OpenReturn("ok")
          ELSE OpenReturn("handshake") /\ UNCHANGED infoVars
    /\ UNCHANGED <<cfgVars, polarVars, callVars, serialConn, connOpen, lock,
                   ret, produced, received, opens, calls, initSent, queried,
                   touched, crashed>>

\* close(): Close on the session's handle, whatever it is
Close ==
    /\ ~crashed
    /\ pc["main"] = "idle"
    /\ \E o \in CloseOutcomes(serialConn) :
          IF o.res = "panic"
          THEN Panic("main") /\ connOpen' = connOpen
          ELSE connOpen' = o.open /\ UNCHANGED <<pc, lock, crashed>>
    /\ UNCHANGED <<cfgVars, infoVars, polarVars, callVars, serialConn, ret,
                   produced, received, opens, calls, oc, openRet, initSent,
                   queried, touched, reqConn>>

Next ==
    \/ StartLoop
    \/ \E t \in Readers : ReadCall(t)
    \/ \E t \in Readers : ReadLock(t)
    \/ \E t \in Readers : ReadWrite(t)
    \/ \E t \in Readers : ReadResponse(t)
    \/ Sleep
    \/ Deliver
    \/ OpenBegin
    \/ OpenSearch
    \/ OpenPort
    \/ OpenInit
    \/ OpenQuery
    \/ OpenResp
    \/ Close

Spec == Init /\ [][Next]_vars

\* ------------------------------------------------- polar: the notification
\* bytes a notification buffer is made of
ByteVals == {0, 16, 72, 255}

RECURSIVE SeqsUpTo(_)
SeqsUpTo(n) ==
    IF n = 0 THEN {<<>>}
    ELSE LET shorter == SeqsUpTo(n - 1)
         IN  shorter \cup {Append(b, x) : b \in shorter, x \in ByteVals}

\* x & y on bytes
RECURSIVE BitAnd(_, _)
BitAnd(x, y) ==
    IF x = 0 \/ y = 0 THEN 0
    ELSE (x % 2) * (y % 2) + 2 * BitAnd(x \div 2, y \div 2)

Uint16LE_bigEndian(b, i) == 256 * b[i + 1] + b[i + 2]

\* binary.LittleEndian.Uint16(b[i:]), i being the Go (0-based) index
Uint16LE(b, i) == b[i + 1] + 256 * b[i + 2]

\* for i := 2; i < len(buf); i += 2 { if i+1 < len(buf) { append } }
RECURSIVE RRLoop(_, _, _)
RRLoop(b, i, rrIntervals) ==
    IF i < Len(b)
    THEN RRLoop(b, i + 2,
                IF i + 1 < Len(b) THEN Append(rrIntervals, Uint16LE(b, i))
                ELSE rrIntervals)
    ELSE rrIntervals

\* the nil []uint16, which is not the empty slice
NilSlice == [absent |-> TRUE, vals |-> <<>>]

\* what the callback sends on rrIntervalCh for buffer b
DecodeRR(b) ==
    IF BitAnd(b[1], 16) # 0 /\ Len(b) >= 4
    THEN [absent |-> FALSE, vals |-> RRLoop(b, 2, <<>>)]
    ELSE NilSlice

Publishes_nonEmpty(b) == Len(b) > 0

\* the callback's guard: if len(buf) > 1
Publishes(b) == Len(b) > 1

\* The radio stack calls the callback with buffer b; buf[1] on a buffer that
\* has no byte 1 is an index-out-of-range panic.
Notify ==
    /\ ~fault
    /\ cbpc = "wait"
    /\ notifs < MaxNotifs
    /\ notifs' = notifs + 1
    /\ out' = <<>>
    /\ \E b \in SeqsUpTo(MaxBuf) :
          /\ buf' = b
          /\ IF Publishes(b)
             THEN IF Len(b) < 2
                  THEN fault' = TRUE /\ cbpc' = "panic"
                  ELSE fault' = fault /\ cbpc' = "sendHR"
             ELSE fault' = fault /\ cbpc' = "done"
    /\ UNCHANGED <<wiredVars, callVars, cons, taken>>

\* readHeartRate() / readRRInterval(): the consumer blocks in a receive
ConsumerCall(ch) ==
    /\ cons = "idle"
    /\ cons' = ch
    /\ UNCHANGED <<wiredVars, callVars, notifs, buf, cbpc, out, fault, taken>>

\* ps.heartRateCh <- buf[1], completed by a consumer in readHeartRate
SendHR ==
    /\ cbpc = "sendHR"
    /\ cons = "hr"
    /\ out' = Append(out, [ch |-> "hr", hr |-> buf[2], rr |-> NilSlice])
    /\ taken' = Append(taken, [ch |-> "hr", n |-> notifs])
    /\ cbpc' = "sendRR"
    /\ cons' = "idle"
    /\ UNCHANGED <<wiredVars, callVars, notifs, buf, fault>>

SendRR_buffered ==
    /\ cbpc = "sendRR"
    /\ out' = Append(out, [ch |-> "rr", hr |-> 0, rr |-> DecodeRR(buf)])
    /\ cbpc' = "done"
    /\ UNCHANGED <<wiredVars, callVars, notifs, buf, fault, cons, taken>>

\* ps.rrIntervalCh <- rrIntervals (or nil), completed by a consumer in
\* readRRInterval
SendRR ==
    /\ cbpc = "sendRR"
    /\ cons = "rr"
    /\ out' = Append(out, [ch |-> "rr", hr |-> 0, rr |-> DecodeRR(buf)])
    /\ taken' = Append(taken, [ch |-> "rr", n |-> notifs])
    /\ cbpc' = "done"
    /\ cons' = "idle"
    /\ UNCHANGED <<wiredVars, callVars, notifs, buf, fault>>

\* the callback returns to the radio stack; its buffer is gone
CallbackReturn ==
    /\ cbpc = "done"
    /\ cbpc' = "wait"
    /\ buf' = <<>>
    /\ out' = <<>>
    /\ UNCHANGED <<wiredVars, callVars, notifs, cons, fault, taken>>

InitPolar ==
    /\ driver = "polar"
    /\ constantFlowRateSCFM = Zero
    /\ SessionIdle
    /\ PolarIdle
    /\ NoCalls

NextPolar ==
    \/ Notify
    \/ \E ch \in {"hr", "rr"} : ConsumerCall(ch)
    \/ SendHR
    \/ SendRR
    \/ CallbackReturn

SpecPolar == InitPolar /\ [][NextPolar]_vars

\* ------------------------------------------------- single function calls
\* The functions of the wired drivers whose result depends on their input
\* alone, each called once on an input drawn from a bounded set.

\* the request tokens of the drivers: "?", "send", "x"
Commands == { <<"?">>, <<"s", "e", "n", "d">>, <<"x">> }

\* the bytes writeCommand hands to serialConn.Write
writeCommand(command) ==
    IF driver = "vaisala" THEN command \o <<"\r", "\n">> ELSE command

TextsUpTo(A, n) == UNION {[1..k -> A] : k \in 0..n}

CO2Alphabet == {"=", " ", "4", ".", "p", "\n"}

FlowAlphabet == {" ", "4", ".", "p"}

\* "CO2=  412.35 ppm"
ExampleCO2Line ==
    <<"C", "O", "2", "=", " ", " ", "4", "1", "2", ".", "3", "5", " ", "p",
      "p", "m">>

\* the response lines a read is called on
ResponseLines ==
    IF driver = "vaisala"
    THEN TextsUpTo(CO2Alphabet, MaxCO2Line) \cup VaisalaLines
            \cup {ExampleCO2Line}
    ELSE TextsUpTo(FlowAlphabet, MaxFlowLine) \cup KurzLines

\* Lines of "ls -l /dev/serial/by-id": the header, the vendor's device linked
\* to ../../ttyUSB0, to ttyUSB1 without a path, and to ../../ttyUSB10,
\* another vendor's device, the vendor's device written without any space,
\* linked to something that is no ttyUSB, and followed by a second arrow
EntryLines ==
    { <<"x", " ", "0">>,
      <<"x", " ">> \o VendorName
          \o <<" ", "->", " ", ".", ".", "/", ".", ".", "/", "ttyUSB", "0">>,
      <<"x", " ">> \o VendorName \o <<" ", "->", " ", "ttyUSB", "1">>,
      <<"x", " ">> \o VendorName
          \o <<" ", "->", " ", ".", ".", "/", "ttyUSB", "1", "0">>,
      <<"x", " ", "x", " ", "->", " ", ".", ".", "/", "ttyUSB", "2">>,
      VendorName \o <<"->", "/", "ttyUSB", "3">>,
      <<"x", " ">> \o VendorName \o <<" ", "->", " ", ".", "/", "x">>,
      VendorName \o <<" ", "->", " ", "/", "ttyUSB", "4", " ", "->", " ",
                      "ttyUSB", "5">> }

\* the listings of up to n entries
RECURSIVE ListingsUpTo(_)
ListingsUpTo(n) ==
    IF n = 0 THEN {<<>>}
    ELSE LET shorter == ListingsUpTo(n - 1)
         IN  shorter \cup
                 {l \o line \o <<"\n">> : l \in shorter, line \in EntryLines}

Args ==
    {[kind |-> "command", text |-> c] : c \in Commands}
        \cup {[kind |-> "line", text |-> l] : l \in ResponseLines}
        \cup {[kind |-> "listing", text |-> l] : l \in ListingsUpTo(MaxEntries)}
        \cup {[kind |-> "no listing", text |-> <<>>]}

InitCalls ==
    /\ driver \in Drivers
    /\ constantFlowRateSCFM = Zero
    /\ SessionIdle
    /\ PolarIdle
    /\ fn = "none"
    /\ arg \in Args
    /\ res = <<>>

CallWriteCommand ==
    /\ fn = "none"
    /\ arg.kind = "command"
    /\ fn' = "writeCommand"
    /\ res' = writeCommand(arg.text)
    /\ UNCHANGED <<wiredVars, polarVars, arg>>

\* readCO2 from the line it has read
CallReadCO2 ==
    /\ fn = "none"
    /\ driver = "vaisala"
    /\ arg.kind = "line"
    /\ fn' = "readCO2"
    /\ res' = ParseCO2(arg.text)
    /\ UNCHANGED <<wiredVars, polarVars, arg>>

\* readFlowRate from the line it has read
CallReadFlowRate ==
    /\ fn = "none"
    /\ driver = "kurz"
    /\ arg.kind = "line"
    /\ fn' = "readFlowRate"
    /\ res' = ParseFlowRate(arg.text)
    /\ UNCHANGED <<wiredVars, polarVars, arg>>

CallSearchPorts ==
    /\ fn = "none"
    /\ arg.kind \in {"listing", "no listing"}
    /\ fn' = "searchPorts"
    /\ res' = searchPorts(usbPrefixRegex, arg.kind = "listing", arg.text)
    /\ UNCHANGED <<wiredVars, polarVars, arg>>

NextCalls ==
    \/ CallWriteCommand
    \/ CallSearchPorts
    \/ CallReadCO2
    \/ CallReadFlowRate

SpecCalls == InitCalls /\ [][NextCalls]_vars

\* ================================================================= claims
\* t has written its request and has not yet read the response line
InFlight(t) ==
    IF t = "main" THEN pc[t] = "o_resp" ELSE pc[t] = "resp"

\* t is inside the write-request / read-response part of a read call
InTransaction(t) == pc[t] \in {"write", "resp"}

IsPrefix(s, t) == Len(s) <= Len(t) /\ SubSeq(t, 1, Len(s)) = s

\* C1: two concurrent read calls (no override) on one session never
\* interleave: while one reader is between its request write and the end of
\* its response read, the other reader is not in that part of its own call,
\* and whoever is in it holds the session lock.
C1_ReadsSerialized ==
    \A t \in Readers :
       InTransaction(t) =>
          /\ lock = t
          /\ \A u \in Readers \ {t} : ~InTransaction(u)

\* C1 witness: the loop's response is outstanding while the second reader
\* waits for the lock
C1_Witness ==
    /\ pc["loop"] = "resp"
    /\ pc["rdr"] = "lock"

\* C2: at most one transaction is in flight on a connection, counting the
\* identification query of openSerialConnection: no two goroutines have an
\* outstanding request on the same connection.
C2_OneTransactionInFlight ==
    \A t \in Threads : \A u \in Threads \ {t} :
       ~(InFlight(t) /\ InFlight(u) /\ reqConn[t] = reqConn[u])

\* C3: the polling loop sleeps after a failed read and only then, publishes
\* after a successful read and only then, and never reaches a terminal state.
C3_LoopNeverStops ==
    /\ pc["loop"] = "sleep" => ~ret["loop"].ok
    /\ pc["loop"] = "publish" => ret["loop"].ok
    /\ pc["loop"] # "panic"

\* C4: what the consumer has received is exactly the values of the loop's
\* successful reads, in order, each once: nothing else is ever on the channel,
\* and the only value not yet received is the one being published.
C4_ChannelCarriesSuccessfulReads ==
    /\ IsPrefix(received, produced)
    /\ pc["loop"] = "publish" =>
          /\ ret["loop"].ok
          /\ produced = Append(received, ret["loop"].val)
    /\ pc["loop"] # "publish" => received = produced

\* C4 witness: two different values were read and delivered in read order
C4_Witness ==
    /\ pc["loop"] = "call"
    /\ Len(received) = 2
    /\ received[1] # received[2]
    /\ received = produced

\* C5: at most one read value is undelivered, and while it is the loop is
\* blocked in the publish: it is in no read call and has no request out.
C5_PublishBlocksLoop ==
    /\ Len(produced) <= Len(received) + 1
    /\ Len(produced) > Len(received) =>
          /\ pc["loop"] = "publish"
          /\ ~InFlight("loop")
          /\ lock # "loop"

\* C5 witness: the loop is blocked publishing its second value
C5_Witness ==
    /\ pc["loop"] = "publish"
    /\ Len(received) = 1
    /\ Len(produced) = 2

\* C6: with a non-zero override every readFlowRate returns the override with
\* no error, and no reader ever takes the lock or touches the connection;
\* with a zero, unset or unparsable override every read that has returned
\* went through the locked transaction.
C6_OverrideBypassesIO ==
    /\ constantFlowRateSCFM \in {Zero, [m |-> 25, e |-> 1]}
    /\ constantFlowRateSCFM # Zero =>
          /\ driver = "kurz"
          /\ touched = {}
          /\ lock = "none"
          /\ \A t \in Readers : pc[t] \in {"idle", "call", "publish"}
          /\ calls > 0 =>
                ret["rdr"] = [ok |-> TRUE, val |-> constantFlowRateSCFM]
          /\ \A i \in 1..Len(produced) : produced[i] = constantFlowRateSCFM
    /\ constantFlowRateSCFM = Zero =>
          /\ \A t \in Readers : InTransaction(t) => lock = t
          /\ pc["loop"] \in {"sleep", "publish"} => "loop" \in touched
          /\ (calls > 0 /\ pc["rdr"] = "idle") => "rdr" \in touched

\* C6 witness: a session that was never opened has answered two direct calls
\* with the override
C6_Witness ==
    /\ constantFlowRateSCFM # Zero
    /\ serialConn = Nil
    /\ opens = 0
    /\ calls = 2
    /\ ret["rdr"].val = constantFlowRateSCFM

\* C9: a call of openSerialConnection on a session that holds a connection
\* closes it in its first step and goes on to discovery whatever Close
\* returned; discovery and the new open come after that Close.
C9_ReopenClosesFirst ==
    /\ [][opens' = opens + 1 =>
            /\ pc'["main"] = "o_search"
            /\ serialConn # Nil =>
                  /\ oc'.closed
                  /\ oc'.had = serialConn
                  /\ ~oc'.closeErr => serialConn \notin connOpen']_vars
    /\ [](pc["main"] \in {"o_search", "o_open"} /\ serialConn # Nil =>
            oc.closed /\ oc.had = serialConn)

\* C9 witness: the teardown failed and the call has opened a new connection
\* and sent the identification query on it
C9_Witness ==
    /\ oc.closeErr
    /\ pc["main"] = "o_resp"
    /\ serialConn # oc.had
    /\ serialConn \in connOpen

\* C10 as stated: in both drivers the identification query goes only to a
\* connection the initialization command was written to before.
C10_InitBeforeQuery ==
    /\ queried \subseteq initSent
    /\ pc["main"] = "o_query" => serialConn \in initSent

\* C10 amended: in the Vaisala driver the opener's next step after a
\* successful serial.Open is the write of "open <address>", and "?" goes only
\* to a connection that command was written to; the Kurz driver has no such
\* command, its opener goes from serial.Open straight to the "?" query.
C10_VaisalaInitBeforeQuery ==
    /\ [][serialConn' \notin {serialConn, Nil} =>
            pc'["main"] = IF driver = "vaisala" THEN "o_init"
                          ELSE "o_query"]_vars
    /\ [](driver = "vaisala" =>
            /\ queried \subseteq initSent
            /\ pc["main"] = "o_query" => serialConn \in initSent)
    /\ [](driver = "kurz" => initSent = {})

\* C10 witness: the Vaisala driver has reconnected and queried the second
\* connection
C10_Witness ==
    /\ driver = "vaisala"
    /\ 2 \in queried
    /\ 2 \in initSent

\* bit 4 (mask 0x10) of byte x
Bit4(x) == (x \div 16) % 2 = 1

\* C7: a notification with more than one byte publishes exactly two events,
\* the heart rate and then the RR event; a notification of length 0 or 1
\* publishes nothing; the callback never faults.
C7_TwoEventsPerNotification ==
    /\ ~fault
    /\ cbpc = "sendHR" => Len(buf) > 1 /\ out = <<>>
    /\ cbpc = "sendRR" => Len(buf) > 1 /\ Len(out) = 1 /\ out[1].ch = "hr"
    /\ cbpc = "done" =>
          IF Len(buf) > 1
          THEN Len(out) = 2 /\ out[1].ch = "hr" /\ out[2].ch = "rr"
          ELSE out = <<>>

\* C7 witness: the second notification's two events were both received
C7_Witness ==
    /\ notifs = 2
    /\ cbpc = "done"
    /\ Len(out) = 2

\* C8: for a buffer of n >= 2 bytes the heart rate is byte 1; with bit 4 of
\* byte 0 set and n >= 4 the RR sequence has floor((n-2)/2) entries, entry k
\* being buf[2+2k] + 256*buf[3+2k]; otherwise the RR value is nil.
C8_Decoding ==
    \A j \in 1..Len(out) :
       LET n == Len(buf)
           rr == out[j].rr
       IN  /\ out[j].ch = "hr" => out[j].hr = buf[2]
           /\ out[j].ch = "rr" =>
                 IF Bit4(buf[1]) /\ n >= 4
                 THEN /\ ~rr.absent
                      /\ Len(rr.vals) = (n - 2) \div 2
                      /\ \A k \in 0..(Len(rr.vals) - 1) :
                            rr.vals[k + 1] = buf[2 + 2 * k + 1]
                                             + 256 * buf[3 + 2 * k + 1]
                 ELSE rr = NilSlice

\* C8 witness: a five-byte buffer with bit 4 set gave one interval whose two
\* bytes differ, the odd trailing byte being dropped
C8_Witness ==
    /\ Len(buf) = 5
    /\ Len(out) = 2
    /\ ~out[2].rr.absent
    /\ out[2].rr.vals = <<buf[3] + 256 * buf[4]>>
    /\ buf[3] # buf[4]


\* ---------------------------------------------------------------- C17
\* C17: a reader holds the session lock only inside one read transaction:
\* outside a transaction (before the call, after any return of the read,
\* while the loop is blocked publishing or sleeping, after a panic) it does
\* not hold the lock, so a slow consumer never keeps a second reader out.
C17_LockOnlyInTransaction ==
    \A t \in Readers : lock = t => pc[t] \in {"write", "resp"}

\* the loop is blocked publishing a value nobody has taken yet while the
\* second reader is inside its own transaction, after a failed read of its own
C17_Witness ==
    /\ pc["loop"] = "publish"
    /\ lock = "rdr"
    /\ pc["rdr"] = "resp"
    /\ calls = 2
    /\ ~ret["rdr"].ok


\* ---------------------------------------------------------------- C11
\* what the claim expects in a field after a handshake on line response: the
\* captured group when the pattern matches with one, the empty default if not
Expected(re, response) ==
    LET match == FindStringSubmatch(re, response)
    IN  IF Len(match) > 1 THEN match[2] ELSE <<>>

\* C11: after every successful handshake (on a first open and on every
\* reconnect) each of the three metadata fields holds the group its pattern
\* captured in the response line, and is empty when its pattern did not
\* match; the handshake fails only when the "?" write or the line read fails.
C11_FieldsFollowResponse ==
    /\ [][pc["main"] = "o_resp" /\ openRet' = "ok" /\ pc'["main"] = "idle" =>
            \E response \in InfoLines :
                /\ sensorModel' = Expected(modelRegex, response)
                /\ sensorSerialNumber' = Expected(serialNumberRegex, response)
                /\ sensorSoftwareVersion' = Expected(softwareRegex, response)
         ]_vars
    /\ [][pc["main"] \in {"o_query", "o_resp"} /\ pc'["main"] = "idle" =>
            openRet' \in {"ok", "handshake"}]_vars


\* ---------------------------------------------------------------- C18
\* C18: a step of a reader (a read call of the loop or of a second caller,
\* the loop's sleep and publish) changes neither the connection handle nor
\* the identification metadata and starts no openSerialConnection call; the
\* handle and the metadata change only in steps of openSerialConnection
\* (serial.Open and the handshake).
C18_ReadsLeaveSessionAlone ==
    /\ [][(received' # received \/ \E t \in Readers : pc'[t] # pc[t]) =>
            /\ UNCHANGED <<serialConn, infoVars, opens>>
            /\ pc'["main"] = pc["main"]]_vars
    /\ [][serialConn' # serialConn => pc["main"] = "o_open"]_vars
    /\ [][infoVars' # infoVars => pc["main"] = "o_resp"]_vars

\* the loop has published twice and a second caller has read twice on a
\* session whose handshake set the metadata
C18_Witness ==
    /\ sensorModel # <<>>
    /\ serialConn # Nil
    /\ Len(received) = 2
    /\ calls = 2
    /\ pc["rdr"] = "idle"
    /\ ret["rdr"].ok


\* ---------------------------------------------------------------- C14
\* the steps of openSerialConnection after the teardown, in program order
OpenSteps ==
    IF driver = "vaisala"
    THEN <<"discovery", "open", "write", "query", "read">>
    ELSE <<"discovery", "open", "query", "read">>

StepPc(step) ==
    CASE step = "discovery" -> "o_search"
      [] step = "open"      -> "o_open"
      [] step = "write"     -> "o_init"
      [] step = "query"     -> "o_query"
      [] step = "read"      -> "o_resp"

\* the error openSerialConnection returns when step fails
FailureOf(step) ==
    CASE step = "discovery" -> "discovery"
      [] step = "open"      -> "open"
      [] step = "write"     -> "write"
      [] step = "query"     -> "handshake"
      [] step = "read"      -> "handshake"

\* C14: openSerialConnection runs discovery, port open, command write and
\* handshake in this order, each only after all the steps before it have
\* succeeded; it returns from the first failing step with that step's error
\* (no port is opened after a failed discovery, no command written after a
\* failed open, no handshake started after a failed command write) and it
\* returns success only from the last step.
C14_StopsAtFirstFailure ==
    /\ [](pc["main"] \notin {"idle", "panic"} =>
            /\ Len(oc.steps) < Len(OpenSteps)
            /\ oc.steps = SubSeq(OpenSteps, 1, Len(oc.steps))
            /\ pc["main"] = StepPc(OpenSteps[Len(oc.steps) + 1]))
    /\ [][pc["main"] # "idle" /\ pc'["main"] = "idle" =>
            LET step == OpenSteps[Len(oc.steps) + 1]
            IN  /\ openRet' \in {FailureOf(step)} \cup
                                (IF step = "read" THEN {"ok"} ELSE {})
                /\ openRet' = "discovery" =>
                      UNCHANGED <<serialConn, connOpen, initSent, queried>>
                /\ openRet' = "open" =>
                      serialConn' \notin initSent' \cup queried'
                /\ openRet' = "write" => serialConn' \notin queried'
         ]_vars

\* a reconnect whose handshake read failed after the query was written on
\* the new connection
C14_Witness ==
    /\ pc["main"] = "idle"
    /\ opens = 2
    /\ openRet = "handshake"
    /\ serialConn = 2
    /\ serialConn \in queried


\* ---------------------------------------------------------------- C19
\* a step that calls Write, ReadString or Close on the session's handle
UsesHandle ==
    \/ \E t \in Readers : pc[t] \in {"write", "resp"} /\ pc'[t] # pc[t]
    \/ pc["main"] \in {"o_init", "o_query", "o_resp"} /\ pc'["main"] = "idle"
    \/ pc["main"] \in {"o_init", "o_query"} /\ pc'["main"] # pc["main"]
    \/ pc["main"] = "idle" /\ pc'["main"] = "panic"
    \/ pc["main"] = "idle" /\ opens' # opens /\ serialConn # Nil

\* C19: whatever calls were made before, every Write, line read and Close
\* of the session is made on a handle that is not nil and whose connection
\* is open.
C19_HandleAlwaysValid ==
    [][UsesHandle => serialConn # Nil /\ serialConn \in connOpen]_vars

\* C19 after a reconnect: once a second openSerialConnection call has
\* returned, every read transaction still finds a handle that is not nil and
\* whose connection is open.
C19_ValidAfterReconnect ==
    [][(opens = 2 /\ pc["main"] = "idle" /\
        \E t \in Readers : pc[t] \in {"write", "resp"} /\ pc'[t] # pc[t]) =>
           serialConn # Nil /\ serialConn \in connOpen]_vars


\* ---------------------------------------------------------------- C12
\* C12: in both wired drivers writeCommand(text) writes exactly text followed
\* by CR LF.
C12_CommandsEndWithCRLF ==
    fn = "writeCommand" => res = arg.text \o <<"\r", "\n">>


\* ---------------------------------------------------------------- C13
\* the pairs <<i, p>> of positions of a listing line at which the port
\* pattern can begin and its "ttyUSB<digit>" can lie: the vendor literal at
\* i, the arrow (for Kurz "_USB" and then the arrow) after it, "ttyUSB" and
\* a digit at p after the arrow
Hits(line) ==
    {h \in (1..Len(line)) \X (1..(Len(line) - 1)) :
        /\ line[h[1]] = usbPrefixRegex[1]
        /\ line[h[2]] = "ttyUSB"
        /\ line[h[2] + 1] \in Digits
        /\ IF driver = "vaisala"
           THEN \E a \in (h[1] + 1)..(h[2] - 1) : line[a] = "->"
           ELSE \E u \in (h[1] + 1)..(h[2] - 1) :
                   /\ line[u] = "_USB"
                   /\ \E a \in (u + 1)..(h[2] - 1) : line[a] = "->"}

\* the last white-space-delimited token of the match in a matching line
Candidate(line) ==
    LET start  == Least({h[1] : h \in Hits(line)})
        p      == Greatest({h[2] : h \in Hits(line)})
        e      == Greatest({j \in (p + 1)..Len(line) :
                               \A k \in (p + 1)..j : line[k] \in Digits})
        spaces == {k \in start..e : line[k] \in Whitespace}
    IN  SubSeq(line, IF spaces = {} THEN start ELSE Greatest(spaces) + 1, e)

\* C13: on a listing in which the pattern matches nowhere searchPorts fails
\* with the not-found error; otherwise the first matching line decides
\* alone: the last white-space-delimited token of its match is the
\* candidate, a candidate with a "/" gives the port "/dev/" followed by the
\* candidate's last path segment, a candidate without "/" fails with the same
\* not-found error; what follows the first match has no influence.
C13_FirstMatchDecides ==
    (fn = "searchPorts" /\ arg.kind = "listing") =>
        LET lines    == Split(arg.text, "\n")
            matching == {k \in 1..Len(lines) : Hits(lines[k]) # {}}
        IN  IF matching = {} THEN res = NotFound
            ELSE LET cand    == Candidate(lines[Least(matching)])
                     slashes == {k \in 1..Len(cand) : cand[k] = "/"}
                 IN  IF slashes = {} THEN res = NotFound
                     ELSE res = [err |-> "nil",
                                 port |-> <<"/dev/">> \o
                                     SubSeq(cand, Greatest(slashes) + 1,
                                            Len(cand))]

\* a listing of two devices of the vendor, linked to different ports: the
\* port of the first one is returned
C13_Witness ==
    /\ fn = "searchPorts"
    /\ res = [err |-> "nil", port |-> <<"/dev/", "ttyUSB", "0">>]
    /\ LET lines == Split(arg.text, "\n")
       IN  /\ Len(lines) = 3
           /\ Hits(lines[1]) # {}
           /\ Hits(lines[2]) # {}
           /\ Contains(Candidate(lines[2]), "/")
           /\ Candidate(lines[2]) # Candidate(lines[1])

\* ---------------------------------------------------------------- C15
\* the text between the first "=" of line s and its next "=" (or its end)
ValueSegment(s) ==
    LET eqs   == {i \in 1..Len(s) : s[i] = "="}
        first == Least(eqs)
        later == {i \in eqs : i > first}
        stop  == IF later = {} THEN Len(s) + 1 ELSE Least(later)
    IN  SubSeq(s, first + 1, stop - 1)

\* the first run of characters of s that are not white space, for an s that
\* is not all white space
FirstToken(s) ==
    LET a == Least({i \in 1..Len(s) : s[i] \notin Whitespace})
        b == Least({i \in a..Len(s) :
                       i = Len(s) \/ s[i + 1] \in Whitespace})
    IN  SubSeq(s, a, b)

\* C15: readCO2 fails on a line without "="; on any other line it looks at
\* the text between the first "=" and the next one (or the end of the line),
\* fails when that text is empty or all white space, and otherwise returns
\* what the first white-space-delimited token of it parses to: the number,
\* or a failure when the token is not a number.  "CO2=  412.35 ppm" gives
\* 412.35.
C15_ReadCO2OfLine ==
    fn = "readCO2" =>
        LET s == arg.text
        IN  /\ (\A i \in 1..Len(s) : s[i] # "=") => ~res.ok
            /\ (\E i \in 1..Len(s) : s[i] = "=") =>
                  LET seg == ValueSegment(s)
                  IN  IF \A i \in 1..Len(seg) : seg[i] \in Whitespace
                      THEN ~res.ok
                      ELSE /\ res = ParseFloat(FirstToken(seg))
                           /\ ~res.ok => res.val = Zero
            /\ s = ExampleCO2Line =>
                  res = [ok |-> TRUE, val |-> [m |-> 41235, e |-> 2]]

\* the example line has been read and given its value
C15_Witness ==
    /\ fn = "readCO2"
    /\ arg.text = ExampleCO2Line
    /\ res.ok


\* ---------------------------------------------------------------- C16
\* positions of line s at which a white-space-delimited token starts
TokenStarts(s) ==
    {i \in 1..Len(s) :
        s[i] \notin Whitespace /\ (i = 1 \/ s[i - 1] \in Whitespace)}

\* the token of s that starts at position a
TokenAt(s, a) ==
    SubSeq(s, a, Least({i \in a..Len(s) :
                           i = Len(s) \/ s[i + 1] \in Whitespace}))

\* C16: readFlowRate fails on a line of fewer than four white-space-delimited
\* tokens; on any other line it returns what the fourth token parses to,
\* whatever the other tokens are: the number, or a failure when the fourth
\* token is not a number.
C16_ReadFlowRateOfLine ==
    fn = "readFlowRate" =>
        LET s      == arg.text
            starts == TokenStarts(s)
        IN  IF Cardinality(starts) < 4 THEN ~res.ok
            ELSE LET a == CHOOSE i \in starts :
                             Cardinality({j \in starts : j < i}) = 3
                 IN  /\ res = ParseFloat(TokenAt(s, a))
                     /\ ~res.ok => res.val = Zero

\* a line of five tokens has been read and given the value of its fourth
C16_Witness ==
    /\ fn = "readFlowRate"
    /\ Cardinality(TokenStarts(arg.text)) = 5
    /\ res = [ok |-> TRUE, val |-> [m |-> 5, e |-> 1]]


\* ---------------------------------------------------------------- C20
HeartRates == SelectSeq(taken, LAMBDA ev : ev.ch = "hr")

RRIntervals == SelectSeq(taken, LAMBDA ev : ev.ch = "rr")

\* the callback and the consumer wait for each other on different channels
Crossed ==
    \/ cbpc = "sendRR" /\ cons = "hr"
    \/ cbpc = "sendHR" /\ cons = "rr"

\* C20: the events are received as heart rate, RR event, heart rate, RR
\* event, ...: the heart rate of a notification is received only after the
\* RR event of every earlier publishing notification, and the k-th value of
\* readRRInterval comes from the notification of the k-th value of
\* readHeartRate.  A consumer that calls readHeartRate while the callback is
\* sending the RR event, or readRRInterval before the heart rate was taken,
\* is blocked for ever, and the callback with it.
C20_PairedDelivery ==
    /\ [](/\ Len(RRIntervals) <= Len(HeartRates)
          /\ Len(HeartRates) <= Len(RRIntervals) + 1
          /\ \A k \in 1..Len(RRIntervals) :
                RRIntervals[k].n = HeartRates[k].n
          /\ \A k \in 1..Len(taken) :
                taken[k].ch = IF k % 2 = 1 THEN "hr" ELSE "rr"
          /\ \A j, k \in 1..Len(HeartRates) :
                j < k => HeartRates[j].n < HeartRates[k].n)
    /\ [][~Crossed]_vars
    /\ [][cons = "rr" /\ cbpc # "sendRR" =>
             cons' = "rr" /\ cbpc' # "sendRR"]_vars

\* the consumer took the pair of the first notification and the heart rate
\* of the second and then called readHeartRate again: it is blocked, and the
\* callback is stalled in its RR send
C20_Witness ==
    /\ Len(taken) = 3
    /\ taken[3] = [ch |-> "hr", n |-> 2]
    /\ cbpc = "sendRR"
    /\ cons = "hr"

====
